---- MODULE Spec2Model ----
(***************************************************************************)
(* Operator resolution of the rcc grammar model (src/ast.rs): the token to *)
(* operator classifiers (TryFrom<&Token>) and the binary precedence table. *)
(***************************************************************************)
EXTENDS Integers, Sequences, FiniteSets

(***************************************************************************)
(* Result<T, ()> of a classifier.  Pending marks a classifier that has not *)
(* been called on the current token yet.                                   *)
(***************************************************************************)
Ok(v) == <<"Ok", v>>
Err == <<"Err">>
Pending == <<"Pending">>
IsOk(r) == r[1] = "Ok"

(***************************************************************************)
(* Tokens.  A token is a keyword, a symbol, a literal or an identifier.    *)
(***************************************************************************)
Sym(s) == <<"Symbol", s>>
Kw(k) == <<"Keyword", k>>
Ident(h) == <<"Identifier", h>>
Lit(v) == <<"Literal", v>>

\* Symbols that occur in a match arm of one of the classifiers.
OperatorSymbols ==
    {"Plus", "Minus", "Star", "Slash", "Modulo",
     "EqualEqual", "BangEqual", "GreaterThan", "GreaterThanEqual",
     "LessThan", "LessThanEqual",
     "Ampersand", "Pipe", "Caret", "LeftShift", "RightShift",
     "Equal", "PlusEqual", "MinusEqual", "StarEqual", "SlashEqual",
     "ModuloEqual", "AmpersandEqual", "PipeEqual", "CaretEqual",
     "LeftShiftEqual", "RightShiftEqual",
     "Increment", "Decrement", "Bang", "Tilde"}

\* The scanner's symbols for && and ||, which no classifier names.
LogicalSymbols == {"DoubleAmpersand", "DoublePipe"}

\* Symbols that are no operator of an expression.
PunctuationSymbols ==
    {"Semicolon", "OpenParen", "CloseParen", "OpenCurly", "CloseCurly", "Comma"}

Symbols == OperatorSymbols \cup LogicalSymbols \cup PunctuationSymbols

\* Keywords that occur in a match arm of one of the specifier classifiers.
SpecifierKeywords ==
    {"Int", "Double", "Void", "Char", "Long", "Signed", "Unsigned",
     "Static", "Const"}

OtherKeywords == {"If", "While", "Return", "Struct", "Sizeof"}

Keywords == SpecifierKeywords \cup OtherKeywords

Tokens ==
    {Sym(s) : s \in Symbols} \cup {Kw(k) : k \in Keywords}
        \cup {Ident(1), Lit(2)}

(***************************************************************************)
(* impl TryFrom<&Token> for TypeSpecifier / StorageSpecifier /             *)
(* TypeQualifier                                                           *)
(***************************************************************************)
TypeSpecifier_try_from(value) ==
    CASE value = Kw("Int") -> Ok("Int")
      [] value = Kw("Double") -> Ok("Double")
      [] value = Kw("Void") -> Ok("Void")
      [] value = Kw("Char") -> Ok("Char")
      [] value = Kw("Long") -> Ok("Long")
      [] value = Kw("Signed") -> Ok("Signed")
      [] value = Kw("Unsigned") -> Ok("Unsigned")
      [] OTHER -> Err

StorageSpecifier_try_from(value) ==
    CASE value = Kw("Static") -> Ok("Static")
      [] OTHER -> Err

TypeQualifier_try_from(value) ==
    CASE value = Kw("Const") -> Ok("Const")
      [] OTHER -> Err

(***************************************************************************)
(* impl TryFrom<&Token> for PostfixOp                                      *)
(***************************************************************************)
PostfixOpVariants == {"Increment", "Decrement"}

PostfixOp_try_from_keyword(value) ==
    CASE value = Sym("Increment") -> Ok("Increment")
      [] value = Sym("Decrement") -> Ok("Decrement")
      [] value = Kw("Sizeof") -> Ok("Increment")
      [] OTHER -> Err

PostfixOp_try_from_plus(value) ==
    CASE value = Sym("Increment") -> Ok("Increment")
      [] value = Sym("Decrement") -> Ok("Decrement")
      [] value = Sym("Plus") -> Ok("Increment")
      [] OTHER -> Err

PostfixOp_try_from(value) ==
    CASE value = Sym("Increment") -> Ok("Increment")
      [] value = Sym("Decrement") -> Ok("Decrement")
      [] OTHER -> Err

(***************************************************************************)
(* impl TryFrom<&Token> for UnaryOp                                        *)
(***************************************************************************)
UnaryOpVariants ==
    {"Increment", "Decrement", "Plus", "Negate", "LogicalNot", "BitwiseNot",
     "Deref", "AddressOf"}

UnaryOp_try_from_no_deref(value) ==
    CASE value = Sym("Plus") -> Ok("Plus")
      [] value = Sym("Minus") -> Ok("Negate")
      [] value = Sym("Bang") -> Ok("LogicalNot")
      [] value = Sym("Tilde") -> Ok("BitwiseNot")
      [] value = Sym("Increment") -> Ok("Increment")
      [] value = Sym("Decrement") -> Ok("Decrement")
      [] OTHER -> Err

UnaryOp_try_from(value) ==
    CASE value = Sym("Plus") -> Ok("Plus")
      [] value = Sym("Minus") -> Ok("Negate")
      [] value = Sym("Bang") -> Ok("LogicalNot")
      [] value = Sym("Tilde") -> Ok("BitwiseNot")
      [] value = Sym("Increment") -> Ok("Increment")
      [] value = Sym("Decrement") -> Ok("Decrement")
      [] value = Sym("Star") -> Ok("Deref")
      [] value = Sym("Ampersand") -> Ok("AddressOf")
      [] OTHER -> Err

(***************************************************************************)
(* enum AssignOp, enum BinaryOp.  A BinaryOp tag is a tuple: <<name>> for  *)
(* a unit variant and <<"Assign", k>> for Assign(k).                       *)
(***************************************************************************)
AssignOpVariants ==
    {"Assign", "Plus", "Minus", "Multiply", "Divide", "Modulo",
     "BitwiseAnd", "BitwiseOr", "BitwiseXor", "LeftShift", "RightShift"}

Assign(k) == <<"Assign", k>>
IsAssign(op) == op[1] = "Assign"

BinaryUnitVariants ==
    {"Add", "Subtract", "Multiply", "Divide", "Modulo",
     "Equal", "NotEqual", "GreaterThan", "GreaterThanEqual",
     "LessThan", "LessThanEqual",
     "LogicalAnd", "LogicalOr",
     "BitwiseAnd", "BitwiseOr", "BitwiseXor",
     "LeftShift", "RightShift"}

BinaryOpVariants ==
    {<<n>> : n \in BinaryUnitVariants} \cup {Assign(k) : k \in AssignOpVariants}

(***************************************************************************)
(* impl TryFrom<&Token> for AssignOp                                       *)
(***************************************************************************)
AssignOp_try_from_swapped(value) ==
    CASE value = Sym("Equal") -> Ok("Assign")
      [] value = Sym("PlusEqual") -> Ok("Minus")
      [] value = Sym("MinusEqual") -> Ok("Plus")
      [] value = Sym("StarEqual") -> Ok("Multiply")
      [] value = Sym("SlashEqual") -> Ok("Divide")
      [] value = Sym("ModuloEqual") -> Ok("Modulo")
      [] value = Sym("AmpersandEqual") -> Ok("BitwiseAnd")
      [] value = Sym("PipeEqual") -> Ok("BitwiseOr")
      [] value = Sym("CaretEqual") -> Ok("BitwiseXor")
      [] value = Sym("LeftShiftEqual") -> Ok("LeftShift")
      [] value = Sym("RightShiftEqual") -> Ok("RightShift")
      [] OTHER -> Err

AssignOp_try_from(value) ==
    CASE value = Sym("Equal") -> Ok("Assign")
      [] value = Sym("PlusEqual") -> Ok("Plus")
      [] value = Sym("MinusEqual") -> Ok("Minus")
      [] value = Sym("StarEqual") -> Ok("Multiply")
      [] value = Sym("SlashEqual") -> Ok("Divide")
      [] value = Sym("ModuloEqual") -> Ok("Modulo")
      [] value = Sym("AmpersandEqual") -> Ok("BitwiseAnd")
      [] value = Sym("PipeEqual") -> Ok("BitwiseOr")
      [] value = Sym("CaretEqual") -> Ok("BitwiseXor")
      [] value = Sym("LeftShiftEqual") -> Ok("LeftShift")
      [] value = Sym("RightShiftEqual") -> Ok("RightShift")
      [] OTHER -> Err

(***************************************************************************)
(* impl TryFrom<&Token> for BinaryOp                                       *)
(***************************************************************************)
\* ++ taken for the binary operator Add
BinaryOp_try_from_increment(value) ==
    CASE value = Sym("Plus") -> Ok(<<"Add">>)
      [] value = Sym("Increment") -> Ok(<<"Add">>)
      [] value = Sym("Minus") -> Ok(<<"Subtract">>)
      [] value = Sym("Star") -> Ok(<<"Multiply">>)
      [] value = Sym("Slash") -> Ok(<<"Divide">>)
      [] value = Sym("Modulo") -> Ok(<<"Modulo">>)
      [] value = Sym("EqualEqual") -> Ok(<<"Equal">>)
      [] value = Sym("BangEqual") -> Ok(<<"NotEqual">>)
      [] value = Sym("GreaterThan") -> Ok(<<"GreaterThan">>)
      [] value = Sym("GreaterThanEqual") -> Ok(<<"GreaterThanEqual">>)
      [] value = Sym("LessThan") -> Ok(<<"LessThan">>)
      [] value = Sym("LessThanEqual") -> Ok(<<"LessThanEqual">>)
      [] value = Sym("Ampersand") -> Ok(<<"BitwiseAnd">>)
      [] value = Sym("Pipe") -> Ok(<<"BitwiseOr">>)
      [] value = Sym("Caret") -> Ok(<<"BitwiseXor">>)
      [] value = Sym("LeftShift") -> Ok(<<"LeftShift">>)
      [] value = Sym("RightShift") -> Ok(<<"RightShift">>)
      [] value = Sym("Equal") -> Ok(Assign("Assign"))
      [] value = Sym("PlusEqual") -> Ok(Assign("Plus"))
      [] value = Sym("MinusEqual") -> Ok(Assign("Minus"))
      [] value = Sym("StarEqual") -> Ok(Assign("Multiply"))
      [] value = Sym("SlashEqual") -> Ok(Assign("Divide"))
      [] value = Sym("ModuloEqual") -> Ok(Assign("Modulo"))
      [] value = Sym("AmpersandEqual") -> Ok(Assign("BitwiseAnd"))
      [] value = Sym("PipeEqual") -> Ok(Assign("BitwiseOr"))
      [] value = Sym("CaretEqual") -> Ok(Assign("BitwiseXor"))
      [] value = Sym("LeftShiftEqual") -> Ok(Assign("LeftShift"))
      [] value = Sym("RightShiftEqual") -> Ok(Assign("RightShift"))
      [] OTHER -> Err

\* the += arm yields the tag of the -= arm
BinaryOp_try_from_merged(value) ==
    CASE value = Sym("Plus") -> Ok(<<"Add">>)
      [] value = Sym("Minus") -> Ok(<<"Subtract">>)
      [] value = Sym("Star") -> Ok(<<"Multiply">>)
      [] value = Sym("Slash") -> Ok(<<"Divide">>)
      [] value = Sym("Modulo") -> Ok(<<"Modulo">>)
      [] value = Sym("EqualEqual") -> Ok(<<"Equal">>)
      [] value = Sym("BangEqual") -> Ok(<<"NotEqual">>)
      [] value = Sym("GreaterThan") -> Ok(<<"GreaterThan">>)
      [] value = Sym("GreaterThanEqual") -> Ok(<<"GreaterThanEqual">>)
      [] value = Sym("LessThan") -> Ok(<<"LessThan">>)
      [] value = Sym("LessThanEqual") -> Ok(<<"LessThanEqual">>)
      [] value = Sym("Ampersand") -> Ok(<<"BitwiseAnd">>)
      [] value = Sym("Pipe") -> Ok(<<"BitwiseOr">>)
      [] value = Sym("Caret") -> Ok(<<"BitwiseXor">>)
      [] value = Sym("LeftShift") -> Ok(<<"LeftShift">>)
      [] value = Sym("RightShift") -> Ok(<<"RightShift">>)
      [] value = Sym("Equal") -> Ok(Assign("Assign"))
      [] value = Sym("PlusEqual") -> Ok(Assign("Minus"))
      [] value = Sym("MinusEqual") -> Ok(Assign("Minus"))
      [] value = Sym("StarEqual") -> Ok(Assign("Multiply"))
      [] value = Sym("SlashEqual") -> Ok(Assign("Divide"))
      [] value = Sym("ModuloEqual") -> Ok(Assign("Modulo"))
      [] value = Sym("AmpersandEqual") -> Ok(Assign("BitwiseAnd"))
      [] value = Sym("PipeEqual") -> Ok(Assign("BitwiseOr"))
      [] value = Sym("CaretEqual") -> Ok(Assign("BitwiseXor"))
      [] value = Sym("LeftShiftEqual") -> Ok(Assign("LeftShift"))
      [] value = Sym("RightShiftEqual") -> Ok(Assign("RightShift"))
      [] OTHER -> Err

BinaryOp_try_from(value) ==
    CASE value = Sym("Plus") -> Ok(<<"Add">>)
      [] value = Sym("Minus") -> Ok(<<"Subtract">>)
      [] value = Sym("Star") -> Ok(<<"Multiply">>)
      [] value = Sym("Slash") -> Ok(<<"Divide">>)
      [] value = Sym("Modulo") -> Ok(<<"Modulo">>)
      [] value = Sym("EqualEqual") -> Ok(<<"Equal">>)
      [] value = Sym("BangEqual") -> Ok(<<"NotEqual">>)
      [] value = Sym("GreaterThan") -> Ok(<<"GreaterThan">>)
      [] value = Sym("GreaterThanEqual") -> Ok(<<"GreaterThanEqual">>)
      [] value = Sym("LessThan") -> Ok(<<"LessThan">>)
      [] value = Sym("LessThanEqual") -> Ok(<<"LessThanEqual">>)
      [] value = Sym("Ampersand") -> Ok(<<"BitwiseAnd">>)
      [] value = Sym("Pipe") -> Ok(<<"BitwiseOr">>)
      [] value = Sym("Caret") -> Ok(<<"BitwiseXor">>)
      [] value = Sym("LeftShift") -> Ok(<<"LeftShift">>)
      [] value = Sym("RightShift") -> Ok(<<"RightShift">>)
      [] value = Sym("Equal") -> Ok(Assign("Assign"))
      [] value = Sym("PlusEqual") -> Ok(Assign("Plus"))
      [] value = Sym("MinusEqual") -> Ok(Assign("Minus"))
      [] value = Sym("StarEqual") -> Ok(Assign("Multiply"))
      [] value = Sym("SlashEqual") -> Ok(Assign("Divide"))
      [] value = Sym("ModuloEqual") -> Ok(Assign("Modulo"))
      [] value = Sym("AmpersandEqual") -> Ok(Assign("BitwiseAnd"))
      [] value = Sym("PipeEqual") -> Ok(Assign("BitwiseOr"))
      [] value = Sym("CaretEqual") -> Ok(Assign("BitwiseXor"))
      [] value = Sym("LeftShiftEqual") -> Ok(Assign("LeftShift"))
      [] value = Sym("RightShiftEqual") -> Ok(Assign("RightShift"))
      [] OTHER -> Err

(***************************************************************************)
(* BinaryOp::precedence                                                    *)
(***************************************************************************)
\* the shift level placed above the additive level
BinaryOp_precedence_shift(op) ==
    CASE op \in {<<"Multiply">>, <<"Divide">>, <<"Modulo">>} -> 11
      [] op \in {<<"Add">>, <<"Subtract">>} -> 9
      [] op \in {<<"LeftShift">>, <<"RightShift">>} -> 10
      [] op \in {<<"GreaterThan">>, <<"GreaterThanEqual">>,
                 <<"LessThan">>, <<"LessThanEqual">>} -> 8
      [] op \in {<<"Equal">>, <<"NotEqual">>} -> 7
      [] op = <<"BitwiseAnd">> -> 6
      [] op = <<"BitwiseXor">> -> 5
      [] op = <<"BitwiseOr">> -> 4
      [] op = <<"LogicalAnd">> -> 3
      [] op = <<"LogicalOr">> -> 2
      [] IsAssign(op) -> 1

\* the multiplicative and additive levels exchanged
BinaryOp_precedence_swapped(op) ==
    CASE op \in {<<"Multiply">>, <<"Divide">>, <<"Modulo">>} -> 10
      [] op \in {<<"Add">>, <<"Subtract">>} -> 11
      [] op \in {<<"LeftShift">>, <<"RightShift">>} -> 9
      [] op \in {<<"GreaterThan">>, <<"GreaterThanEqual">>,
                 <<"LessThan">>, <<"LessThanEqual">>} -> 8
      [] op \in {<<"Equal">>, <<"NotEqual">>} -> 7
      [] op = <<"BitwiseAnd">> -> 6
      [] op = <<"BitwiseXor">> -> 5
      [] op = <<"BitwiseOr">> -> 4
      [] op = <<"LogicalAnd">> -> 3
      [] op = <<"LogicalOr">> -> 2
      [] IsAssign(op) -> 1

BinaryOp_precedence(op) ==
    CASE op \in {<<"Multiply">>, <<"Divide">>, <<"Modulo">>} -> 11
      [] op \in {<<"Add">>, <<"Subtract">>} -> 10
      [] op \in {<<"LeftShift">>, <<"RightShift">>} -> 9
      [] op \in {<<"GreaterThan">>, <<"GreaterThanEqual">>,
                 <<"LessThan">>, <<"LessThanEqual">>} -> 8
      [] op \in {<<"Equal">>, <<"NotEqual">>} -> 7
      [] op = <<"BitwiseAnd">> -> 6
      [] op = <<"BitwiseXor">> -> 5
      [] op = <<"BitwiseOr">> -> 4
      [] op = <<"LogicalAnd">> -> 3
      [] op = <<"LogicalOr">> -> 2
      [] IsAssign(op) -> 1

(***************************************************************************)
(* Option<T>                                                               *)
(***************************************************************************)
Some(v) == <<"Some", v>>
None == <<"None">>

(***************************************************************************)
(* enum Expression: the nodes a chain of binary operators is built from.   *)
(* An InternedStr is an opaque handle, modelled as a number.               *)
(***************************************************************************)
Variable(h) == <<"Variable", h>>
Literal(v) == <<"Literal", v>>
Binary(op, l, r) == <<"Binary", op, l, r>>

(***************************************************************************)
(* The precedence-climbing loop of the parser driver.  It asks             *)
(* BinaryOp::try_from whether the next token continues the expression and  *)
(* BinaryOp::precedence how tightly it binds, and recurses only into       *)
(* operators of higher binding strength than its caller's.                 *)
(***************************************************************************)
parse_primary_expression(toks, pos) ==
    IF toks[pos][1] = "Identifier"
    THEN [tree |-> Variable(toks[pos][2]), pos |-> pos + 1]
    ELSE [tree |-> Literal(toks[pos][2]), pos |-> pos + 1]

RECURSIVE parse_binary_expression(_, _, _)
RECURSIVE parse_binary_loop(_, _, _, _)

parse_binary_loop(toks, left, pos, parent_precedence) ==
    IF pos > Len(toks) THEN [tree |-> left, pos |-> pos]
    ELSE LET bin_op == BinaryOp_try_from(toks[pos]) IN
         IF ~IsOk(bin_op) THEN [tree |-> left, pos |-> pos]
         ELSE LET precedence == BinaryOp_precedence(bin_op[2]) IN
              IF precedence <= parent_precedence
              THEN [tree |-> left, pos |-> pos]
              ELSE LET right == parse_binary_expression(toks, pos + 1, precedence)
                   IN parse_binary_loop(toks, Binary(bin_op[2], left, right.tree),
                                        right.pos, parent_precedence)

parse_binary_expression(toks, pos, parent_precedence) ==
    LET left == parse_primary_expression(toks, pos)
    IN parse_binary_loop(toks, left.tree, left.pos, parent_precedence)

(***************************************************************************)
(* Bounds                                                                  *)
(***************************************************************************)
\* the largest number of operator tokens in a parsed expression
MaxOps == 2

(***************************************************************************)
(* State                                                                   *)
(***************************************************************************)
VARIABLES
    tok,        \* the token the driver is looking at
    postfix,    \* PostfixOp::try_from(&tok), Pending until called
    unary,      \* UnaryOp::try_from(&tok)
    binary,     \* BinaryOp::try_from(&tok)
    assign,     \* AssignOp::try_from(&tok)
    tyspec,     \* TypeSpecifier::try_from(&tok)
    storage,    \* StorageSpecifier::try_from(&tok)
    qual,       \* TypeQualifier::try_from(&tok)
    lhs,        \* a BinaryOp tag
    rhs,        \* a second BinaryOp tag
    lhsPrec,    \* lhs.precedence(), None until called
    rhsPrec,    \* rhs.precedence(), None until called
    input,      \* the token stream of one expression
    tree,       \* the Expression built from input, Pending until parsed
    consumed    \* the number of tokens of input the parse consumed

classifyVars == <<tok, postfix, unary, binary, assign, tyspec, storage, qual>>
precVars == <<lhs, rhs, lhsPrec, rhsPrec>>
parseVars == <<input, tree, consumed>>
vars == <<classifyVars, precVars, parseVars>>

ClassifyIdle ==
    /\ tok = Kw("Int")
    /\ postfix = Pending /\ unary = Pending /\ binary = Pending
    /\ assign = Pending /\ tyspec = Pending /\ storage = Pending
    /\ qual = Pending

PrecIdle ==
    /\ lhs = <<"Add">> /\ rhs = <<"Add">>
    /\ lhsPrec = None /\ rhsPrec = None

ParseIdle ==
    /\ input = << >> /\ tree = Pending /\ consumed = 0

(***************************************************************************)
(* Classification of one token by every classifier.                        *)
(***************************************************************************)
Init ==
    /\ tok \in Tokens
    /\ postfix = Pending /\ unary = Pending /\ binary = Pending
    /\ assign = Pending /\ tyspec = Pending /\ storage = Pending
    /\ qual = Pending
    /\ PrecIdle /\ ParseIdle

\* the scanner hands over the next token
NextToken ==
    /\ \E t \in Tokens : tok' = t
    /\ postfix' = Pending /\ unary' = Pending /\ binary' = Pending
    /\ assign' = Pending /\ tyspec' = Pending /\ storage' = Pending
    /\ qual' = Pending
    /\ UNCHANGED <<precVars, parseVars>>

ClassifyPostfix ==
    /\ postfix = Pending
    /\ postfix' = PostfixOp_try_from(tok)
    /\ UNCHANGED <<tok, unary, binary, assign, tyspec, storage, qual>>
    /\ UNCHANGED <<precVars, parseVars>>

ClassifyUnary ==
    /\ unary = Pending
    /\ unary' = UnaryOp_try_from(tok)
    /\ UNCHANGED <<tok, postfix, binary, assign, tyspec, storage, qual>>
    /\ UNCHANGED <<precVars, parseVars>>

ClassifyBinary ==
    /\ binary = Pending
    /\ binary' = BinaryOp_try_from(tok)
    /\ UNCHANGED <<tok, postfix, unary, assign, tyspec, storage, qual>>
    /\ UNCHANGED <<precVars, parseVars>>

ClassifyAssign ==
    /\ assign = Pending
    /\ assign' = AssignOp_try_from(tok)
    /\ UNCHANGED <<tok, postfix, unary, binary, tyspec, storage, qual>>
    /\ UNCHANGED <<precVars, parseVars>>

ClassifyTypeSpecifier ==
    /\ tyspec = Pending
    /\ tyspec' = TypeSpecifier_try_from(tok)
    /\ UNCHANGED <<tok, postfix, unary, binary, assign, storage, qual>>
    /\ UNCHANGED <<precVars, parseVars>>

ClassifyStorageSpecifier ==
    /\ storage = Pending
    /\ storage' = StorageSpecifier_try_from(tok)
    /\ UNCHANGED <<tok, postfix, unary, binary, assign, tyspec, qual>>
    /\ UNCHANGED <<precVars, parseVars>>

ClassifyTypeQualifier ==
    /\ qual = Pending
    /\ qual' = TypeQualifier_try_from(tok)
    /\ UNCHANGED <<tok, postfix, unary, binary, assign, tyspec, storage>>
    /\ UNCHANGED <<precVars, parseVars>>

Next ==
    \/ NextToken
    \/ ClassifyPostfix
    \/ ClassifyUnary
    \/ ClassifyBinary
    \/ ClassifyAssign
    \/ ClassifyTypeSpecifier
    \/ ClassifyStorageSpecifier
    \/ ClassifyTypeQualifier

Spec == Init /\ [][Next]_vars

(***************************************************************************)
(* Precedence lookups for a pair of operator tags.                         *)
(***************************************************************************)
PrecInit ==
    /\ lhs \in BinaryOpVariants /\ rhs \in BinaryOpVariants
    /\ lhsPrec = None /\ rhsPrec = None
    /\ ClassifyIdle /\ ParseIdle

PrecedenceLhs ==
    /\ lhsPrec = None
    /\ lhsPrec' = Some(BinaryOp_precedence(lhs))
    /\ UNCHANGED <<lhs, rhs, rhsPrec, classifyVars, parseVars>>

PrecedenceRhs ==
    /\ rhsPrec = None
    /\ rhsPrec' = Some(BinaryOp_precedence(rhs))
    /\ UNCHANGED <<lhs, rhs, lhsPrec, classifyVars, parseVars>>

PrecNext == PrecedenceLhs \/ PrecedenceRhs

PrecSpec == PrecInit /\ [][PrecNext]_vars

(***************************************************************************)
(* Parsing a chain of binary operators: operand (token operand)*.          *)
(***************************************************************************)
SymbolTokens == {Sym(s) : s \in Symbols}

\* operand i of a chain is the identifier with handle i or, from the third
\* operand on, the literal 2
Operands(i) == IF i >= 3 THEN {Ident(i), Lit(2)} ELSE {Ident(i)}

ParseInit ==
    /\ input = << >>
    /\ tree = Pending /\ consumed = 0
    /\ ClassifyIdle /\ PrecIdle

\* the scanner delivers an operand
ScanOperand ==
    /\ tree = Pending
    /\ Len(input) % 2 = 0
    /\ Len(input) < 2 * MaxOps + 1
    /\ \E o \in Operands((Len(input) \div 2) + 1) : input' = Append(input, o)
    /\ UNCHANGED <<tree, consumed, classifyVars, precVars>>

\* the scanner delivers a symbol after an operand
ScanSymbol ==
    /\ tree = Pending
    /\ Len(input) % 2 = 1
    /\ Len(input) < 2 * MaxOps
    /\ \E t \in SymbolTokens : input' = Append(input, t)
    /\ UNCHANGED <<tree, consumed, classifyVars, precVars>>

ParseExpression ==
    /\ tree = Pending
    /\ Len(input) % 2 = 1
    /\ LET r == parse_binary_expression(input, 1, 0)
       IN /\ tree' = r.tree
          /\ consumed' = r.pos - 1
    /\ UNCHANGED <<input, classifyVars, precVars>>

ParseNext == ScanOperand \/ ScanSymbol \/ ParseExpression

ParseSpec == ParseInit /\ [][ParseNext]_vars

(***************************************************************************)
(* The documented grammar: operator families and the ordering of levels.   *)
(***************************************************************************)
\* tokens of the binary/assignment family: arithmetic, relational, logical,
\* bitwise and the assignment forms
ArithmeticTokens == {Sym(s) : s \in {"Plus", "Minus", "Star", "Slash", "Modulo"}}

RelationalTokens ==
    {Sym(s) : s \in {"EqualEqual", "BangEqual", "GreaterThan",
                     "GreaterThanEqual", "LessThan", "LessThanEqual"}}

LogicalTokens == {Sym(s) : s \in LogicalSymbols}

BitwiseTokens ==
    {Sym(s) : s \in {"Ampersand", "Pipe", "Caret", "LeftShift", "RightShift"}}

AssignmentTokens ==
    {Sym(s) : s \in {"Equal", "PlusEqual", "MinusEqual", "StarEqual",
                     "SlashEqual", "ModuloEqual", "AmpersandEqual",
                     "PipeEqual", "CaretEqual", "LeftShiftEqual",
                     "RightShiftEqual"}}

BinaryFamilyTokens ==
    ArithmeticTokens \cup RelationalTokens \cup LogicalTokens
        \cup BitwiseTokens \cup AssignmentTokens

\* tokens of the unary family
UnaryFamilyTokens ==
    {Sym(s) : s \in {"Plus", "Minus", "Bang", "Tilde", "Increment",
                     "Decrement", "Star", "Ampersand"}}

\* tokens of the postfix family
PostfixFamilyTokens == {Sym("Increment"), Sym("Decrement")}

\* tokens of the binary family that belong to no other family
BinaryOnlyTokens ==
    BinaryFamilyTokens \ (UnaryFamilyTokens \cup PostfixFamilyTokens)

\* tokens of no operator family
NonOperatorTokens ==
    Tokens \ (BinaryFamilyTokens \cup UnaryFamilyTokens
                  \cup PostfixFamilyTokens)

\* position of an operator's level in the documented ordering, 1 = tightest
Rank(op) ==
    CASE op \in {<<"Multiply">>, <<"Divide">>, <<"Modulo">>} -> 1
      [] op \in {<<"Add">>, <<"Subtract">>} -> 2
      [] op \in {<<"LeftShift">>, <<"RightShift">>} -> 3
      [] op \in {<<"GreaterThan">>, <<"GreaterThanEqual">>,
                 <<"LessThan">>, <<"LessThanEqual">>} -> 4
      [] op \in {<<"Equal">>, <<"NotEqual">>} -> 5
      [] op = <<"BitwiseAnd">> -> 6
      [] op = <<"BitwiseXor">> -> 7
      [] op = <<"BitwiseOr">> -> 8
      [] op = <<"LogicalAnd">> -> 9
      [] op = <<"LogicalOr">> -> 10
      [] IsAssign(op) -> 11

Done(r) == r # Pending
Miss(r) == r = Pending \/ r = Err

(***************************************************************************)
(* C1.  Once the precedences of two operator tags have been looked up,     *)
(* they follow the documented ordering: the tag of the tighter level has   *)
(* the strictly larger precedence, tags of one level have equal            *)
(* precedence, tags of different levels have different precedence, and     *)
(* every Assign(op) has the one lowest precedence.                         *)
(***************************************************************************)
C1_PrecedenceOrdering ==
    (lhsPrec # None /\ rhsPrec # None) =>
        /\ (Rank(lhs) < Rank(rhs) => lhsPrec[2] > rhsPrec[2])
        /\ (Rank(lhs) = Rank(rhs) => lhsPrec[2] = rhsPrec[2])
        /\ (Rank(lhs) # Rank(rhs) => lhsPrec[2] # rhsPrec[2])
        /\ (IsAssign(lhs) => lhsPrec[2] <= rhsPrec[2])
        /\ (IsAssign(lhs) /\ IsAssign(rhs) => lhsPrec[2] = rhsPrec[2])

C1_Witness ==
    /\ lhs = <<"LeftShift">> /\ rhs = Assign("Plus")
    /\ lhsPrec = Some(9) /\ rhsPrec = Some(1)

(***************************************************************************)
(* C2.  Every token of the documented binary/assignment family classifies  *)
(* as a binary operator, no other token of the family yields the same tag, *)
(* and && and || yield LogicalAnd and LogicalOr.                           *)
(***************************************************************************)
C2_BinaryFamilyRecognized ==
    (tok \in BinaryFamilyTokens /\ Done(binary)) =>
        /\ IsOk(binary)
        /\ \A t \in BinaryFamilyTokens \ {tok} : BinaryOp_try_from(t) # binary
        /\ (tok = Sym("DoubleAmpersand") => binary = Ok(<<"LogicalAnd">>))
        /\ (tok = Sym("DoublePipe") => binary = Ok(<<"LogicalOr">>))

(***************************************************************************)
(* C3.  A parsed chain x A y B z of two operators of equal precedence      *)
(* groups to the right, A(x, B(y, z)), when the operators are assignments  *)
(* and to the left, B(A(x, y), z), when they are not.                      *)
(***************************************************************************)
C3_Associativity ==
    (Done(tree) /\ Len(input) = 5) =>
        LET A == BinaryOp_try_from(input[2])
            B == BinaryOp_try_from(input[4])
            x == parse_primary_expression(input, 1).tree
            y == parse_primary_expression(input, 3).tree
            z == parse_primary_expression(input, 5).tree
        IN (/\ IsOk(A) /\ IsOk(B)
            /\ BinaryOp_precedence(A[2]) = BinaryOp_precedence(B[2])) =>
               IF IsAssign(A[2])
               THEN tree = Binary(A[2], x, Binary(B[2], y, z))
               ELSE tree = Binary(B[2], Binary(A[2], x, y), z)

(***************************************************************************)
(* C4.  A parsed chain x A y B z in which A is of a tighter documented     *)
(* level than B is the tree Binary(B, Binary(A, x, y), z).                 *)
(***************************************************************************)
C4_TighterGroupsFirst ==
    (Done(tree) /\ Len(input) = 5) =>
        LET A == BinaryOp_try_from(input[2])
            B == BinaryOp_try_from(input[4])
            x == parse_primary_expression(input, 1).tree
            y == parse_primary_expression(input, 3).tree
            z == parse_primary_expression(input, 5).tree
        IN (IsOk(A) /\ IsOk(B) /\ Rank(A[2]) < Rank(B[2])) =>
               /\ tree = Binary(B[2], Binary(A[2], x, y), z)
               /\ consumed = 5

C4_Witness ==
    /\ input = <<Ident(1), Sym("Star"), Ident(2), Sym("Plus"), Ident(3)>>
    /\ tree = Binary(<<"Add">>,
                     Binary(<<"Multiply">>, Variable(1), Variable(2)),
                     Variable(3))

(***************************************************************************)
(* C5.  ++ and -- never classify as binary and classify as both postfix    *)
(* and unary; + classifies as unary Plus and binary Add and not as         *)
(* postfix; a token of the binary family alone that classifies as binary   *)
(* is a miss for the postfix and the unary classifier.                     *)
(***************************************************************************)
C5_FamilyExclusivity ==
    /\ tok \in {Sym("Increment"), Sym("Decrement")} =>
           /\ (Done(binary) => binary = Err)
           /\ (Done(postfix) => IsOk(postfix))
           /\ (Done(unary) => IsOk(unary))
    /\ tok = Sym("Plus") =>
           /\ (Done(unary) => unary = Ok("Plus"))
           /\ (Done(binary) => binary = Ok(<<"Add">>))
           /\ (Done(postfix) => postfix = Err)
    /\ (tok \in BinaryOnlyTokens /\ IsOk(binary)) =>
           /\ Miss(postfix)
           /\ Miss(unary)

C5_Witness ==
    /\ tok = Sym("Increment")
    /\ binary = Err /\ postfix = Ok("Increment") /\ unary = Ok("Increment")

(***************************************************************************)
(* C6.  The tokens that classify as BinaryOp::Assign(_).                   *)
(***************************************************************************)
AssignClassified ==
    {t \in Tokens : IsOk(BinaryOp_try_from(t))
                        /\ IsAssign(BinaryOp_try_from(t)[2])}

\* C6 as stated: when a token has classified as Assign(_), the tokens that
\* classify so are exactly thirteen, each with its own tag, and AssignOp has
\* thirteen variants
C6_ThirteenAssignForms ==
    (IsOk(binary) /\ IsAssign(binary[2])) =>
        /\ Cardinality(AssignClassified) = 13
        /\ Cardinality(AssignOpVariants) = 13
        /\ \A t \in AssignClassified \ {tok} : BinaryOp_try_from(t) # binary

\* C6 amended: when a token has classified as Assign(_), the tokens that
\* classify so are exactly eleven, each with its own AssignOp tag, and
\* AssignOp has eleven variants, each one reachable from a token
C6_ElevenAssignForms ==
    (IsOk(binary) /\ IsAssign(binary[2])) =>
        /\ Cardinality(AssignClassified) = 11
        /\ Cardinality(AssignOpVariants) = 11
        /\ binary[2][2] \in AssignOpVariants
        /\ \A t \in AssignClassified \ {tok} : BinaryOp_try_from(t) # binary
        /\ \A k \in AssignOpVariants :
               \E t \in Tokens : BinaryOp_try_from(t) = Ok(Assign(k))

C6_Witness ==
    /\ tok = Sym("RightShiftEqual")
    /\ binary = Ok(Assign("RightShift"))

(***************************************************************************)
(* C7.  The unary classifier maps + - ! ~ ++ -- * & to Plus, Negate,       *)
(* LogicalNot, BitwiseNot, Increment, Decrement, Deref, AddressOf and      *)
(* misses every other token; * and & are Deref and AddressOf whatever else *)
(* has been classified, and the binary classifier maps the same two tokens *)
(* to Multiply and BitwiseAnd.                                             *)
(***************************************************************************)
UnaryTable ==
    {<<"Plus", "Plus">>, <<"Minus", "Negate">>, <<"Bang", "LogicalNot">>,
     <<"Tilde", "BitwiseNot">>, <<"Increment", "Increment">>,
     <<"Decrement", "Decrement">>, <<"Star", "Deref">>,
     <<"Ampersand", "AddressOf">>}

C7_UnaryClassification ==
    /\ Done(unary) =>
           /\ \A e \in UnaryTable : tok = Sym(e[1]) => unary = Ok(e[2])
           /\ (tok \notin {Sym(e[1]) : e \in UnaryTable} => unary = Err)
    /\ Done(binary) =>
           /\ (tok = Sym("Star") => binary = Ok(<<"Multiply">>))
           /\ (tok = Sym("Ampersand") => binary = Ok(<<"BitwiseAnd">>))

C7_Witness ==
    /\ tok = Sym("Star")
    /\ unary = Ok("Deref") /\ binary = Ok(<<"Multiply">>)

(***************************************************************************)
(* C8.  The postfix classifier maps ++ to Increment and -- to Decrement    *)
(* and answers Err for every other token.                                  *)
(***************************************************************************)
C8_PostfixClassification ==
    Done(postfix) =>
        /\ (tok = Sym("Increment") => postfix = Ok("Increment"))
        /\ (tok = Sym("Decrement") => postfix = Ok("Decrement"))
        /\ (tok \notin {Sym("Increment"), Sym("Decrement")} => postfix = Err)

C8_Witness ==
    /\ tok = Sym("Decrement")
    /\ postfix = Ok("Decrement")

(***************************************************************************)
(* C9.  Every classifier answers Ok(tag of its own enum) or Err, answers   *)
(* what it answers for the token alone, and leaves the token and the other *)
(* classifiers' answers as they are; a token of no operator family is a    *)
(* miss for the postfix, the unary and the binary classifier.              *)
(***************************************************************************)
TypeSpecifierUnitVariants ==
    {"Void", "Char", "Int", "Long", "Double", "Signed", "Unsigned"}

StorageSpecifierVariants == {"Static"}

TypeQualifierVariants == {"Const"}

Outcome(r, variants) == r = Err \/ (IsOk(r) /\ r[2] \in variants)

C9_Outcomes ==
    /\ Done(postfix) => Outcome(postfix, PostfixOpVariants)
    /\ Done(unary) => Outcome(unary, UnaryOpVariants)
    /\ Done(binary) => Outcome(binary, BinaryOpVariants)
    /\ Done(assign) => Outcome(assign, AssignOpVariants)
    /\ Done(tyspec) => Outcome(tyspec, TypeSpecifierUnitVariants)
    /\ Done(storage) => Outcome(storage, StorageSpecifierVariants)
    /\ Done(qual) => Outcome(qual, TypeQualifierVariants)
    /\ tok \in NonOperatorTokens =>
           Miss(postfix) /\ Miss(unary) /\ Miss(binary)

\* a classifier that answers leaves the token, the answers already given
\* and everything else as they are
Answered(before, after) == before = Pending /\ after # Pending

C9_Pure ==
    (\/ Answered(postfix, postfix') \/ Answered(unary, unary')
     \/ Answered(binary, binary') \/ Answered(assign, assign')
     \/ Answered(tyspec, tyspec') \/ Answered(storage, storage')
     \/ Answered(qual, qual')) =>
        /\ tok' = tok
        /\ (Done(postfix) => postfix' = postfix)
        /\ (Done(unary) => unary' = unary)
        /\ (Done(binary) => binary' = binary)
        /\ (Done(assign) => assign' = assign)
        /\ (Done(tyspec) => tyspec' = tyspec)
        /\ (Done(storage) => storage' = storage)
        /\ (Done(qual) => qual' = qual)
        /\ UNCHANGED <<precVars, parseVars>>

C9_NeverHardError == [](C9_Outcomes) /\ [][C9_Pure]_vars

C9_Witness ==
    /\ tok = Kw("Return")
    /\ postfix = Err /\ unary = Err /\ binary = Err /\ assign = Err
    /\ tyspec = Err /\ storage = Err /\ qual = Err

(***************************************************************************)
(* C10.  The binary and the assignment classifier agree: binary is         *)
(* Ok(Assign(k)) exactly when assign is Ok(k); k names the operation the   *)
(* token fuses with the assignment; a token the binary classifier maps to  *)
(* a non-assignment tag is a miss for the assignment classifier.           *)
(***************************************************************************)
FusedTable ==
    {<<"Equal", "Assign">>, <<"PlusEqual", "Plus">>, <<"MinusEqual", "Minus">>,
     <<"StarEqual", "Multiply">>, <<"SlashEqual", "Divide">>,
     <<"ModuloEqual", "Modulo">>, <<"AmpersandEqual", "BitwiseAnd">>,
     <<"PipeEqual", "BitwiseOr">>, <<"CaretEqual", "BitwiseXor">>,
     <<"LeftShiftEqual", "LeftShift">>, <<"RightShiftEqual", "RightShift">>}

C10_AssignClassifiersAgree ==
    /\ (Done(binary) /\ Done(assign)) =>
           /\ \A k \in AssignOpVariants :
                  binary = Ok(Assign(k)) <=> assign = Ok(k)
           /\ (IsOk(binary) /\ IsAssign(binary[2])) <=> IsOk(assign)
           /\ (IsOk(binary) /\ ~IsAssign(binary[2])) => assign = Err
    /\ Done(assign) =>
           \A e \in FusedTable : tok = Sym(e[1]) => assign = Ok(e[2])

C10_Witness ==
    /\ tok = Sym("PlusEqual")
    /\ binary = Ok(Assign("Plus")) /\ assign = Ok("Plus")

====
